---- MODULE Spec2Model ----
(***************************************************************************)
(* File operations of pyscaffold (src/pyscaffold/operations.py): the base  *)
(* operation create and the wrappers no_overwrite, skip_on_update and      *)
(* add_permissions, run against a small disk and a reporting sink.         *)
(*                                                                         *)
(* A FileOp value is the chain of wrapper layers around create, outermost  *)
(* first: <<>> is create, <<[w |-> "no_overwrite", perm |-> 0]>> is        *)
(* no_overwrite(create), and so on.  An optional value (Union[X, None]) is *)
(* <<>> for None and <<x>> for x.                                          *)
(***************************************************************************)
EXTENDS Naturals, Sequences, FiniteSets, TLC

VARIABLES
    op,      \* the FileOp built so far by the wrapper factories
    disk,    \* path -> [exists, content, mode]
    umask,   \* the process umask new files are created under
    last,    \* the latest invocation of op: arguments, disk before, outcome
    twin     \* a pretend run and a real run fed the same invocations

vars == <<op, disk, umask, last, twin>>

----------------------------------------------------------------------------
(* Bounds of the model *)

MaxDepth == 2

MaxCalls == 2

Paths == {"p", "q"}

Texts == {"", "new"}

Perms == {73, 146}          \* 0o111, 0o222

Umasks == {18}              \* 0o022

InitModes == {420}          \* 0o644

----------------------------------------------------------------------------
(* Values *)

None == <<>>

Some(x) == <<x>>

FileContents == {None} \cup {Some(t) : t \in Texts}

ScaffoldOpts == [force : BOOLEAN, update : BOOLEAN, pretend : BOOLEAN]

Layers ==
    {[w |-> "no_overwrite", perm |-> 0], [w |-> "skip_on_update", perm |-> 0]}
        \cup {[w |-> "add_permissions", perm |-> P] : P \in Perms}

FileOp == UNION {[1..n -> Layers] : n \in 0..MaxDepth}

NoFile == [exists |-> FALSE, content |-> "", mode |-> 0]

File(content, mode) == [exists |-> TRUE, content |-> content, mode |-> mode]

RECURSIVE BitOr(_, _)
BitOr(a, b) ==
    IF a = 0 THEN b
    ELSE IF b = 0 THEN a
    ELSE (IF a % 2 = 1 \/ b % 2 = 1 THEN 1 ELSE 0) + 2 * BitOr(a \div 2, b \div 2)

RECURSIVE BitAndNot(_, _)
BitAndNot(a, b) ==
    IF a = 0 THEN 0
    ELSE (IF a % 2 = 1 /\ b % 2 = 0 THEN 1 ELSE 0) + 2 * BitAndNot(a \div 2, b \div 2)

S_IFREG == 32768

S_IMODE(mode) == mode % 4096

st_mode(f) == S_IFREG + f.mode

RECURSIVE OctDigits(_)
OctDigits(n) == IF n < 8 THEN <<n>> ELSE Append(OctDigits(n \div 8), n % 8)

RECURSIVE Oct03(_)
Oct03(s) == IF Len(s) >= 3 THEN s ELSE Oct03(<<0>> \o s)

----------------------------------------------------------------------------
(* The reporting sink and the call trace *)

Report(name, mode, path) ==
    [kind |-> "report", op |-> <<>>, tag |-> [name |-> name, mode |-> mode],
     path |-> path, val |-> None]

Call(f, path) ==
    [kind |-> "call", op |-> f, tag |-> [name |-> "", mode |-> <<>>],
     path |-> path, val |-> None]

Return(f, path, val) ==
    [kind |-> "return", op |-> f, tag |-> [name |-> "", mode |-> <<>>],
     path |-> path, val |-> val]

Outcome(d, ret, trace) == [disk |-> d, ret |-> ret, trace |-> trace]

----------------------------------------------------------------------------
(* Low-level file primitives (pyscaffold.utils) *)

create_file(path, content, pretend, d, um) ==
    LET mode == IF d[path].exists THEN d[path].mode ELSE BitAndNot(438, um)
        d2 == IF pretend THEN d ELSE [d EXCEPT ![path] = File(content, mode)]
    IN Outcome(d2, Some(path), <<Report("create", <<>>, path)>>)

chmod(path, mode, pretend, d) ==
    LET m == S_IMODE(mode)
        d2 == IF pretend THEN d ELSE [d EXCEPT ![path].mode = m]
    IN Outcome(d2, Some(path), <<Report("chmod", Oct03(OctDigits(m)), path)>>)

----------------------------------------------------------------------------
(* File operations *)

RECURSIVE file_op(_, _, _, _, _, _)

(* create, handing the primitive pretend=False whatever the options say *)
create_ignoring_pretend(path, contents, opts, d, um) ==
    IF contents = None
    THEN Outcome(d, None, <<>>)
    ELSE create_file(path, contents[1], FALSE, d, um)

(* create, taking absent content for empty content *)
create_writing_absent(path, contents, opts, d, um) ==
    create_file(path, IF contents = None THEN "" ELSE contents[1], opts.pretend, d, um)

create(path, contents, opts, d, um) ==
    IF contents = None
    THEN Outcome(d, None, <<>>)
    ELSE create_file(path, contents[1], opts.pretend, d, um)

(* no_overwrite with "and" for "or" in its condition *)
no_overwrite_and(inner, path, contents, opts, d, um) ==
    IF opts.force /\ ~d[path].exists
    THEN file_op(inner, path, contents, opts, d, um)
    ELSE Outcome(d, None, <<Report("skip", <<>>, path)>>)

(* no_overwrite refusing without a report *)
no_overwrite_silent(inner, path, contents, opts, d, um) ==
    IF opts.force \/ ~d[path].exists
    THEN file_op(inner, path, contents, opts, d, um)
    ELSE Outcome(d, None, <<>>)

_no_overwrite(inner, path, contents, opts, d, um) ==
    IF opts.force \/ ~d[path].exists
    THEN file_op(inner, path, contents, opts, d, um)
    ELSE Outcome(d, None, <<Report("skip", <<>>, path)>>)

(* skip_on_update that looks at the path: it delegates when the file is missing *)
skip_on_update_exists(inner, path, contents, opts, d, um) ==
    IF opts.force \/ ~opts.update \/ ~d[path].exists
    THEN file_op(inner, path, contents, opts, d, um)
    ELSE Outcome(d, None, <<Report("skip", <<>>, path)>>)

_skip_on_update(inner, path, contents, opts, d, um) ==
    IF opts.force \/ ~opts.update
    THEN file_op(inner, path, contents, opts, d, um)
    ELSE Outcome(d, None, <<Report("skip", <<>>, path)>>)

(* add_permissions returning return_value on both branches *)
add_permissions_inner_value(permissions, inner, path, contents, opts, d, um) ==
    LET r == file_op(inner, path, contents, opts, d, um)
    IN IF r.disk[path].exists
       THEN LET mode == BitOr(st_mode(r.disk[path]), permissions)
                c == chmod(path, mode, opts.pretend, r.disk)
            IN Outcome(c.disk, r.ret, r.trace \o c.trace)
       ELSE r

(* add_permissions adjusting the mode only when the inner operation acted *)
add_permissions_if_touched(permissions, inner, path, contents, opts, d, um) ==
    LET r == file_op(inner, path, contents, opts, d, um)
    IN IF r.ret # None /\ r.disk[path].exists
       THEN LET mode == BitOr(st_mode(r.disk[path]), permissions)
                c == chmod(path, mode, opts.pretend, r.disk)
            IN Outcome(c.disk, c.ret, r.trace \o c.trace)
       ELSE r

(* add_permissions setting the mode to permissions instead of adding them *)
add_permissions_overwrite(permissions, inner, path, contents, opts, d, um) ==
    LET r == file_op(inner, path, contents, opts, d, um)
    IN IF r.disk[path].exists
       THEN LET c == chmod(path, permissions, opts.pretend, r.disk)
            IN Outcome(c.disk, c.ret, r.trace \o c.trace)
       ELSE r

(* add_permissions adjusting the mode before it delegates *)
add_permissions_first(permissions, inner, path, contents, opts, d, um) ==
    IF d[path].exists
    THEN LET mode == BitOr(st_mode(d[path]), permissions)
             c == chmod(path, mode, opts.pretend, d)
             r == file_op(inner, path, contents, opts, c.disk, um)
         IN Outcome(r.disk, c.ret, c.trace \o r.trace)
    ELSE file_op(inner, path, contents, opts, d, um)

_add_permissions(permissions, inner, path, contents, opts, d, um) ==
    LET r == file_op(inner, path, contents, opts, d, um)
    IN IF r.disk[path].exists
       THEN LET mode == BitOr(st_mode(r.disk[path]), permissions)
                c == chmod(path, mode, opts.pretend, r.disk)
            IN Outcome(c.disk, c.ret, r.trace \o c.trace)
       ELSE r

Dispatch(f, path, contents, opts, d, um) ==
    IF f = <<>>
    THEN create(path, contents, opts, d, um)
    ELSE LET layer == Head(f)
             inner == Tail(f)
         IN CASE layer.w = "no_overwrite" ->
                    _no_overwrite(inner, path, contents, opts, d, um)
              [] layer.w = "skip_on_update" ->
                    _skip_on_update(inner, path, contents, opts, d, um)
              [] layer.w = "add_permissions" ->
                    _add_permissions(layer.perm, inner, path, contents, opts, d, um)

file_op(f, path, contents, opts, d, um) ==
    LET r == Dispatch(f, path, contents, opts, d, um)
    IN Outcome(r.disk, r.ret,
               <<Call(f, path)>> \o r.trace \o <<Return(f, path, r.ret)>>)

----------------------------------------------------------------------------
(* State machine *)

NoCall == [called |-> FALSE]

NoTwin == [calls |-> 0, disk_pretend |-> <<>>, disk_real |-> <<>>,
           log_pretend |-> <<>>, log_real |-> <<>>]

Reports(trace) == SelectSeq(trace, LAMBDA e : e.kind = "report")

Tags(trace) == [i \in 1..Len(Reports(trace)) |-> Reports(trace)[i].tag]

InitFiles == {NoFile} \cup {File(t, m) : t \in Texts, m \in InitModes}

Init ==
    /\ op = <<>>
    /\ disk \in [Paths -> InitFiles]
    /\ umask \in Umasks
    /\ last = NoCall
    /\ twin = NoTwin

Wrap(layer) ==
    /\ ~last.called
    /\ Len(op) < MaxDepth
    /\ op' = <<layer>> \o op
    /\ UNCHANGED <<disk, umask, last, twin>>

no_overwrite == Wrap([w |-> "no_overwrite", perm |-> 0])

skip_on_update == Wrap([w |-> "skip_on_update", perm |-> 0])

add_permissions == \E P \in Perms : Wrap([w |-> "add_permissions", perm |-> P])

Invoke ==
    /\ ~last.called
    /\ \E path \in Paths, contents \in FileContents, opts \in ScaffoldOpts :
         LET r == file_op(op, path, contents, opts, disk, umask)
         IN /\ disk' = r.disk
            /\ last' = [called |-> TRUE, op |-> op, path |-> path,
                        contents |-> contents, opts |-> opts, pre |-> disk,
                        ret |-> r.ret, trace |-> r.trace]
    /\ UNCHANGED <<op, umask, twin>>

NextFile ==
    /\ last.called
    /\ last' = NoCall
    /\ op' = <<>>
    /\ UNCHANGED <<disk, umask, twin>>

Next ==
    \/ no_overwrite
    \/ skip_on_update
    \/ add_permissions
    \/ Invoke
    \/ NextFile

Spec == Init /\ [][Next]_vars

----------------------------------------------------------------------------
(* The same invocations fed to a pretend run and to a real run *)

TwinInit ==
    /\ op = <<>>
    /\ disk = [p \in Paths |-> NoFile]
    /\ umask \in Umasks
    /\ last = NoCall
    /\ \E d \in [Paths -> InitFiles] :
         twin = [calls |-> 0, disk_pretend |-> d, disk_real |-> d,
                 log_pretend |-> <<>>, log_real |-> <<>>]

TwinInvoke ==
    /\ twin.calls < MaxCalls
    /\ \E f \in FileOp, path \in Paths, contents \in FileContents,
          force \in BOOLEAN, update \in BOOLEAN :
         LET o(pretend) == [force |-> force, update |-> update, pretend |-> pretend]
             dry == file_op(f, path, contents, o(TRUE), twin.disk_pretend, umask)
             wet == file_op(f, path, contents, o(FALSE), twin.disk_real, umask)
         IN twin' = [calls |-> twin.calls + 1,
                     disk_pretend |-> dry.disk,
                     disk_real |-> wet.disk,
                     log_pretend |-> twin.log_pretend \o Tags(dry.trace),
                     log_real |-> twin.log_real \o Tags(wet.trace)]
    /\ UNCHANGED <<op, disk, umask, last>>

TwinNext == TwinInvoke

TwinSpec == TwinInit /\ [][TwinNext]_vars

----------------------------------------------------------------------------
(* Reading the latest invocation *)

CallCount(trace, f) ==
    Len(SelectSeq(trace, LAMBDA e : e.kind = "call" /\ e.op = f))

ReturnedBy(trace, f) ==
    {trace[i].val : i \in {j \in 1..Len(trace) :
                             trace[j].kind = "return" /\ trace[j].op = f}}

SkipTag == [name |-> "skip", mode |-> <<>>]

CreateTag == [name |-> "create", mode |-> <<>>]

ChmodTag(mode) == [name |-> "chmod", mode |-> Oct03(OctDigits(mode))]

Bit(n, i) == (n \div (2 ^ i)) % 2

Outermost(w) == last.called /\ last.op # <<>> /\ Head(last.op).w = w

InnerOutcome ==
    file_op(Tail(last.op), last.path, last.contents, last.opts, last.pre, umask)

OthersUntouched == \A q \in Paths \ {last.path} : disk[q] = last.pre[q]

----------------------------------------------------------------------------
(* C1: an invocation with pretend=true leaves the existence, content and   *)
(* mode of every path as they were, whatever the operation, the content    *)
(* and the force/update setting; so does any sequence of such invocations. *)
C1_PretendNeverMutates ==
    (last.called /\ last.opts.pretend) => disk = last.pre

C1_Witness ==
    /\ last.called /\ last.opts.pretend
    /\ last.pre[last.path].exists
    /\ last.contents = Some("new")
    /\ Tags(last.trace) = <<CreateTag, ChmodTag(BitOr(420, 73))>>

(* C2: the pretend run reports the same sequence of action tags as the     *)
(* real run fed the same invocations from the same disk.                   *)
C2_PretendSameTags == twin.log_pretend = twin.log_real

(* C3: no_overwrite(op) calls op exactly once and returns its value iff    *)
(* force is set or the path is missing; otherwise it changes nothing,      *)
(* reports one skip for the path and returns None.  So no_overwrite(create)*)
(* with force=false and pretend=false never changes an existing file's     *)
(* content.                                                                *)
C3_NoOverwrite ==
    Outermost("no_overwrite") =>
        LET inner == Tail(last.op)
            run == last.opts.force \/ ~last.pre[last.path].exists
        IN /\ run => /\ CallCount(last.trace, inner) = 1
                     /\ ReturnedBy(last.trace, inner) = {last.ret}
           /\ ~run => /\ CallCount(last.trace, inner) = 0
                      /\ disk = last.pre
                      /\ Reports(last.trace) = <<Report("skip", <<>>, last.path)>>
                      /\ last.ret = None
           /\ (inner = <<>> /\ ~last.opts.force /\ ~last.opts.pretend) =>
                  \A q \in Paths :
                      last.pre[q].exists => disk[q].content = last.pre[q].content

C3_Witness ==
    /\ Outermost("no_overwrite") /\ Tail(last.op) = <<>>
    /\ ~last.opts.force /\ ~last.opts.pretend
    /\ last.pre[last.path].exists
    /\ last.pre[last.path].content = ""
    /\ last.contents = Some("new")
    /\ last.ret = None

(* C4: skip_on_update(op) calls op exactly once and returns its value iff  *)
(* force is set or update is not, whether or not the path exists; with     *)
(* update and no force it changes nothing, reports one skip and returns    *)
(* None.                                                                   *)
C4_SkipOnUpdate ==
    Outermost("skip_on_update") =>
        LET inner == Tail(last.op)
            run == last.opts.force \/ ~last.opts.update
        IN /\ run => /\ CallCount(last.trace, inner) = 1
                     /\ ReturnedBy(last.trace, inner) = {last.ret}
           /\ ~run => /\ CallCount(last.trace, inner) = 0
                      /\ disk = last.pre
                      /\ Reports(last.trace) = <<Report("skip", <<>>, last.path)>>
                      /\ last.ret = None

C4_Witness ==
    /\ Outermost("skip_on_update")
    /\ last.opts.update /\ ~last.opts.force /\ ~last.opts.pretend
    /\ ~last.pre[last.path].exists
    /\ last.contents = Some("new")
    /\ last.ret = None

(* C5 as stated: add_permissions(P, op) returns the value op returned.     *)
C5_ReturnsInnerValue ==
    Outermost("add_permissions") =>
        ReturnedBy(last.trace, Tail(last.op)) = {last.ret}

(* C5 amended: add_permissions(P, op) returns the path, the result of the  *)
(* permission step, when the path exists after op has run, even if op      *)
(* returned None; it returns op's value only when the path does not exist. *)
C5_ReturnsPermissionStepResult ==
    Outermost("add_permissions") =>
        IF disk[last.path].exists
        THEN last.ret = Some(last.path)
        ELSE ReturnedBy(last.trace, Tail(last.op)) = {last.ret}

C5_Witness ==
    /\ Outermost("add_permissions")
    /\ ReturnedBy(last.trace, Tail(last.op)) = {None}
    /\ disk[last.path].exists
    /\ last.ret = Some(last.path)

InEndToEndScenario ==
    /\ Outermost("add_permissions")
    /\ Tail(last.op) = <<[w |-> "skip_on_update", perm |-> 0]>>
    /\ ~last.opts.force /\ last.opts.update /\ ~last.opts.pretend
    /\ last.pre[last.path].exists

(* C6 as stated: in the end-to-end scenario nothing is written, the mode   *)
(* stays, the only report is one skip and the result is None.              *)
C6_EndToEndNoChange ==
    InEndToEndScenario =>
        /\ disk = last.pre
        /\ Tags(last.trace) = <<SkipTag>>
        /\ last.ret = None

(* C6 amended: in the end-to-end scenario nothing is written, but the mode *)
(* becomes old mode | P, the reports are a skip and then a chmod, and the  *)
(* result is the path.                                                     *)
C6_EndToEndAddsPermissions ==
    InEndToEndScenario =>
        LET old == last.pre[last.path]
            mode == BitOr(old.mode, Head(last.op).perm)
        IN /\ disk[last.path] = File(old.content, mode)
           /\ OthersUntouched
           /\ Tags(last.trace) = <<SkipTag, ChmodTag(mode)>>
           /\ last.ret = Some(last.path)

C6_Witness ==
    /\ InEndToEndScenario
    /\ last.pre[last.path].content = ""
    /\ last.contents = Some("new")
    /\ Head(last.op).perm = 73
    /\ last.pre[last.path].mode = 420
    /\ disk[last.path].mode = 493

(* C7: with pretend=false, when the path exists after the inner operation, *)
(* the mode after add_permissions(P, op) has exactly the bits of the mode  *)
(* the inner operation left and the bits of P; running the same operation  *)
(* again leaves the mode as it is.                                         *)
C7_AdditiveIdempotent ==
    (Outermost("add_permissions") /\ ~last.opts.pretend) =>
        LET p == last.path
            P == Head(last.op).perm
            r == InnerOutcome
            again == file_op(last.op, p, last.contents, last.opts, disk, umask)
        IN r.disk[p].exists =>
              /\ disk[p].exists
              /\ \A i \in 0..15 :
                    Bit(disk[p].mode, i) = 1
                        <=> (Bit(r.disk[p].mode, i) = 1 \/ Bit(P, i) = 1)
              /\ again.disk[p].mode = disk[p].mode

C7_Witness ==
    /\ Outermost("add_permissions") /\ ~last.opts.pretend
    /\ Head(last.op).perm = 146
    /\ last.pre[last.path].exists
    /\ last.pre[last.path].mode = 420
    /\ disk[last.path].mode = 438

NumChmod(trace) ==
    Len(SelectSeq(trace, LAMBDA e : e.kind = "report" /\ e.tag.name = "chmod"))

RefusedOverwrite ==
    /\ last.called /\ Len(last.op) = 2
    /\ ~last.opts.force
    /\ last.pre[last.path].exists

(* no_overwrite(add_permissions(P, create)) on an existing path, no force: *)
(* a skip, nothing written, no mode adjusted, add_permissions not entered  *)
PolicyOutside ==
    (RefusedOverwrite /\ last.op[1].w = "no_overwrite"
                      /\ last.op[2].w = "add_permissions") =>
        /\ Tags(last.trace) = <<SkipTag>>
        /\ disk = last.pre
        /\ CallCount(last.trace, Tail(last.op)) = 0

(* the permission step of add_permissions comes after the inner operation  *)
(* has returned, and only there                                            *)
PermissionStepLast ==
    Outermost("add_permissions") =>
        LET n == Len(last.trace)
            inner == Tail(last.op)
        IN /\ last.trace[2] = Call(inner, last.path)
           /\ IF disk[last.path].exists
              THEN /\ last.trace[n - 1].kind = "report"
                   /\ last.trace[n - 1].tag.name = "chmod"
                   /\ last.trace[n - 2].kind = "return"
                   /\ last.trace[n - 2].op = inner
                   /\ NumChmod(last.trace) = NumChmod(InnerOutcome.trace) + 1
              ELSE NumChmod(last.trace) = NumChmod(InnerOutcome.trace)

PolicyInside(adds) ==
    (RefusedOverwrite /\ last.op[1].w = "add_permissions"
                      /\ last.op[2].w = "no_overwrite") =>
        LET old == last.pre[last.path]
            mode == BitOr(old.mode, last.op[1].perm)
        IN /\ Tags(last.trace) = <<SkipTag, ChmodTag(mode)>>
           /\ disk[last.path].content = old.content
           /\ OthersUntouched
           /\ disk[last.path].mode = (IF adds THEN mode ELSE old.mode)

(* C8 as stated: for an existing path without force, no_overwrite outside  *)
(* add_permissions skips and adjusts nothing; add_permissions outside      *)
(* no_overwrite skips first and then adds P to the mode of the file on     *)
(* disk; the permission step never precedes the inner operation's return.  *)
C8_OuterDecidesFirst ==
    /\ PolicyOutside
    /\ PolicyInside(TRUE)
    /\ PermissionStepLast

(* C8 amended: as stated, but P is added to the mode on disk only with     *)
(* pretend=false; with pretend=true the chmod is reported and the mode     *)
(* stays.                                                                  *)
C8_OuterDecidesFirstHonoringPretend ==
    /\ PolicyOutside
    /\ PolicyInside(~last.opts.pretend)
    /\ PermissionStepLast

C8_Witness ==
    /\ RefusedOverwrite
    /\ last.op[1].w = "add_permissions" /\ last.op[2].w = "no_overwrite"
    /\ ~last.opts.pretend
    /\ last.contents = Some("new")
    /\ last.pre[last.path].content = ""
    /\ disk[last.path].mode # last.pre[last.path].mode
    /\ disk[last.path].content = ""

(* C9: create with absent content returns None, reports nothing and leaves *)
(* the disk as it was, for every path, disk and option set.                *)
C9_CreateAbsent ==
    (last.called /\ last.op = <<>> /\ last.contents = None) =>
        /\ last.ret = None
        /\ Reports(last.trace) = <<>>
        /\ disk = last.pre

C9_Witness ==
    /\ last.called /\ last.op = <<>> /\ last.contents = None
    /\ last.opts.force /\ ~last.opts.pretend
    /\ last.pre[last.path].exists

Observable(o, f) ==
    [invoked |-> CallCount(o.trace, f), reports |-> Reports(o.trace),
     ret |-> o.ret, disk |-> o.disk]

NoOverwriteLayer == [w |-> "no_overwrite", perm |-> 0]

SkipOnUpdateLayer == [w |-> "skip_on_update", perm |-> 0]

(* C10 as stated: some force, update and path existence make               *)
(* no_overwrite(skip_on_update(op)) and skip_on_update(no_overwrite(op))   *)
(* differ in whether op is called, in the reports or in the result.        *)
C10_OrdersDiffer ==
    \E d \in [Paths -> InitFiles] \cup {disk}, path \in Paths,
       contents \in FileContents, opts \in ScaffoldOpts,
       f \in {g \in FileOp : Len(g) + 2 <= MaxDepth} :
        Observable(file_op(<<NoOverwriteLayer, SkipOnUpdateLayer>> \o f,
                           path, contents, opts, d, umask), f)
            # Observable(file_op(<<SkipOnUpdateLayer, NoOverwriteLayer>> \o f,
                                 path, contents, opts, d, umask), f)

(* C10 amended: the two orders agree: for every force, update and path     *)
(* existence, op is called in the one iff it is in the other, and the      *)
(* reports, the result and the disk are the same.                          *)
C10_OrdersAgree ==
    (/\ last.called /\ Len(last.op) >= 2
     /\ {last.op[1], last.op[2]} = {NoOverwriteLayer, SkipOnUpdateLayer}) =>
        LET f == Tail(Tail(last.op))
            swapped == <<last.op[2], last.op[1]>> \o f
            other == file_op(swapped, last.path, last.contents, last.opts,
                             last.pre, umask)
        IN Observable(other, f)
              = Observable(Outcome(disk, last.ret, last.trace), f)

C10_Witness ==
    /\ last.called
    /\ last.op = <<NoOverwriteLayer, SkipOnUpdateLayer>>
    /\ ~last.opts.force /\ last.opts.update /\ ~last.opts.pretend
    /\ ~last.pre[last.path].exists
    /\ last.contents = Some("new")
    /\ Tags(last.trace) = <<SkipTag>>

====
